---- MODULE Spec2Model ----
(***************************************************************************)
(* Tag-driven double dispatch of torch/csrc/jit/fuser/common/dispatch.cpp. *)
(*                                                                         *)
(* The model is a call-stack machine.  A caller starts one dispatch (Call) *)
(* on a node of the IR; the nine dispatcher functions (dispatch,           *)
(* const_dispatch, mutator_dispatch at Statement, Val and Expr level) and  *)
(* the generic entry points of the base abstractions are one action each,  *)
(* translated from their bodies; the per-kind handler overloads, which     *)
(* live outside this file, are the environment.                            *)
(***************************************************************************)
EXTENDS Integers, Sequences, FiniteSets, TLC

VARIABLES
  ir,      \* node id -> tags and children of the node (the IR node layer)
  live,    \* the set of existing nodes
  call,    \* the dispatch the caller started: entry point, node, handler
  stack,   \* the C++ call stack: dispatcher frames and handler frames
  log,     \* every handler overload invoked so far in this call, in order
  trace,   \* every dispatcher function entered so far in this call, in order
  status,  \* "idle", "running", "done", "aborted" (internal assert), "crashed"
  retv,    \* the value the last returning function returned
  dret     \* what the Val-/Expr-level mutator_dispatch on the entry node returned

vars == <<ir, live, call, stack, log, trace, status, retv, dret>>

----------------------------------------------------------------------------
(* Bounds *)

\* Number of ForLoop nodes nested around the base IR (depth of the deepest tree).
MaxNest == 1

----------------------------------------------------------------------------
(* The tag model and the IR the dispatcher is run on *)

ValKinds == {"IterDomain", "TensorDomain", "Tensor", "TensorView"}
ScalarKinds == {"Float", "Int"}
ExprKinds == {"Split", "Merge", "Reorder", "UnaryOp", "BinaryOp", "ForLoop", "IfThenElse"}
Kinds == ValKinds \cup ScalarKinds \cup ExprKinds
Levels == {"Statement", "Val", "Expr"}

ValNode(vt, kids) == [cat |-> "Val", vtype |-> vt, dtype |-> "-", etype |-> "-", kids |-> kids]
ScalarNode(dt) == [cat |-> "Val", vtype |-> "Scalar", dtype |-> dt, etype |-> "-", kids |-> <<>>]
ExprNode(et, kids) == [cat |-> "Expr", vtype |-> "-", dtype |-> "-", etype |-> et, kids |-> kids]
\* A Statement that answers false to both isVal() and isExpr().
BareStatement == [cat |-> "None", vtype |-> "-", dtype |-> "-", etype |-> "-", kids |-> <<>>]
\* A slot in which no node has been constructed yet.
Absent == [cat |-> "Absent", vtype |-> "-", dtype |-> "-", etype |-> "-", kids |-> <<>>]

\* Nodes 1..13: one node of every concrete kind, arranged as a tree under the
\* ForLoop 12.  Nodes 14..17 carry a tag outside the switches ("Other"; for a
\* Scalar a data type that is neither Float nor Int) or no category.  Node 18 is
\* a ForLoop whose body holds such a node.
BasePool ==
  << ValNode("IterDomain", <<>>),        \*  1
     ValNode("TensorDomain", <<1>>),     \*  2
     ValNode("Tensor", <<>>),            \*  3
     ValNode("TensorView", <<2>>),       \*  4
     ScalarNode("Float"),                \*  5
     ScalarNode("Int"),                  \*  6
     ExprNode("Split", <<>>),            \*  7
     ExprNode("Merge", <<>>),            \*  8
     ExprNode("Reorder", <<>>),          \*  9
     ExprNode("UnaryOp", <<5>>),         \* 10
     ExprNode("BinaryOp", <<5, 6>>),     \* 11
     ExprNode("ForLoop", <<11, 13>>),    \* 12
     ExprNode("IfThenElse", <<10>>),     \* 13
     ValNode("Other", <<>>),             \* 14
     ScalarNode("Other"),                \* 15
     ExprNode("Other", <<>>),            \* 16
     BareStatement,                      \* 17
     ExprNode("ForLoop", <<11, 16>>) >>  \* 18

\* MaxNest further ForLoops, each holding the previous one (the first holds 12).
NestPool ==
  [i \in 1..MaxNest |->
     ExprNode("ForLoop", << IF i = 1 THEN 12 ELSE Len(BasePool) + i - 1 >>)]

Pool == BasePool \o NestPool

\* The slot of the node a replacing mutate overload constructs.
Repl == Len(Pool) + 1
ReplNode == ExprNode("UnaryOp", <<>>)

NodeIds == 1..Repl

isVal(n) == n.cat = "Val"
isExpr(n) == n.cat = "Expr"

\* The concrete runtime kind of a node, "-" when its tags name none.
KindOf(n) ==
  IF isVal(n)
  THEN IF n.vtype = "Scalar"
       THEN IF n.dtype \in ScalarKinds THEN n.dtype ELSE "-"
       ELSE IF n.vtype \in ValKinds THEN n.vtype ELSE "-"
  ELSE IF isExpr(n)
       THEN IF n.etype \in ExprKinds THEN n.etype ELSE "-"
       ELSE "-"

RECURSIVE TreeDepth(_, _)
TreeDepth(f, n) ==
  IF f[n].kids = <<>>
  THEN 1
  ELSE LET ds == {TreeDepth(f, f[n].kids[i]) : i \in DOMAIN f[n].kids}
       IN 1 + CHOOSE d \in ds : \A e \in ds : e <= d

----------------------------------------------------------------------------
(* Values a function returns *)

Void == [t |-> "void", n |-> 0]
Null == [t |-> "null", n |-> 0]
NoRet == [t |-> "none", n |-> 0]
Ptr(n) == [t |-> "node", n |-> n]

----------------------------------------------------------------------------
(* Handlers *)

Families == {"Visit", "Const", "Mutate"}
HClasses == {"OptOutDispatch", "OptInDispatch", "OptInConstDispatch", "OptOutMutator", "OptInMutator"}

FamilyOf(h) ==
  CASE h \in {"OptOutDispatch", "OptInDispatch"} -> "Visit"
    [] h = "OptInConstDispatch" -> "Const"
    [] OTHER -> "Mutate"

DispatchFn(fam) ==
  CASE fam = "Visit" -> "dispatch"
    [] fam = "Const" -> "const_dispatch"
    [] OTHER -> "mutator_dispatch"

HandlerFn(fam) == IF fam = "Mutate" THEN "mutate" ELSE "handle"

\* template <typename T> T* ptr(T& obj) / T* ptr(T* obj): the address of the
\* object the handler parameter is (a class) or points to (a pointer).
ptr(h) == h.obj

\* The dispatchers take their handler parameter T by value: with T a class the
\* parameter is a copy of the caller's object (of static type T, so a derived
\* handler is sliced), destroyed when the dispatcher returns; with T a pointer
\* it is that pointer.
PassByValue(f) ==
  IF f.form = "inst"
  THEN [form |-> "inst", obj |-> "copy"]
  ELSE [form |-> "ptr", obj |-> f.obj]

----------------------------------------------------------------------------
(* Frames *)

DispFrame(fn, lvl, n, form, obj, by) ==
  [k |-> "disp", fn |-> fn, ty |-> lvl, node |-> n, form |-> form, obj |-> obj,
   cst |-> (fn = "const_dispatch"), pc |-> "enter", i |-> 0, by |-> by]

HandFrame(fn, ov, n, obj, cst, by) ==
  [k |-> "hand", fn |-> fn, ty |-> ov, node |-> n, form |-> "ptr", obj |-> obj,
   cst |-> cst, pc |-> "enter", i |-> 0, by |-> by]

LogEntry(fn, ov, n, obj, cst, by, d) ==
  [fn |-> fn, ov |-> ov, node |-> n, obj |-> obj, cst |-> cst, by |-> by, d |-> d]

Top == stack[Len(stack)]
SetTop(f) == [stack EXCEPT ![Len(stack)] = f]
Running == status = "running" /\ stack # <<>>

\* The top frame returns to its caller; the call is over when it was the last.
Pop ==
  /\ stack' = SubSeq(stack, 1, Len(stack) - 1)
  /\ status' = IF Len(stack) = 1 THEN "done" ELSE "running"

----------------------------------------------------------------------------
(* Init and the caller *)

Init ==
  /\ ir = [n \in NodeIds |-> IF n = Repl THEN Absent ELSE Pool[n]]
  /\ live = DOMAIN Pool
  /\ call = [fam |-> "Visit", hclass |-> "OptOutDispatch", level |-> "Statement",
             via |-> "dispatcher", form |-> "ptr", node |-> 1,
             walk |-> FALSE, repl |-> "none", reenter |-> "Statement"]
  /\ stack = <<>>
  /\ log = <<>>
  /\ trace = <<>>
  /\ status = "idle"
  /\ retv = NoRet
  /\ dret = NoRet

\* The caller starts a dispatch: either a dispatcher function with the handler
\* as a direct instance or as a pointer, or a generic entry point of the handler.
\* walk: the per-kind overloads re-enter the generic entry points on the
\* children of their node.  repl: which mutate overloads return a replacement
\* ("own": only the one for the entry node's own kind); the others return
\* their node.
Call ==
  /\ status = "idle"
  /\ \E h \in HClasses, n \in live, lvl \in Levels, via \in {"dispatcher", "handler"},
        form \in {"inst", "ptr"}, walk \in BOOLEAN, repl \in {"none", "own", "all"},
        reenter \in {"Statement", "category"} :
       /\ lvl \in {"Statement", ir[n].cat}
       /\ via = "handler" => form = "ptr"
       /\ FamilyOf(h) # "Mutate" => repl = "none"
       /\ repl = "own" => KindOf(ir[n]) \in Kinds
       /\ ~walk => reenter = "Statement"
       /\ call' = [fam |-> FamilyOf(h), hclass |-> h, level |-> lvl, via |-> via,
                   form |-> form, node |-> n, walk |-> walk, repl |-> repl,
                   reenter |-> reenter]
       /\ IF via = "dispatcher"
          THEN /\ stack' = << DispFrame(DispatchFn(FamilyOf(h)), lvl, n, form, "caller", "caller") >>
               /\ log' = <<>>
          ELSE /\ stack' = << HandFrame(HandlerFn(FamilyOf(h)), lvl, n, "caller",
                                        FamilyOf(h) = "Const", "caller") >>
               /\ log' = << LogEntry(HandlerFn(FamilyOf(h)), lvl, n, "caller",
                                     FamilyOf(h) = "Const", "caller", 0) >>
  /\ trace' = <<>>
  /\ status' = "running"
  /\ retv' = NoRet
  /\ dret' = NoRet
  /\ UNCHANGED <<ir, live>>

----------------------------------------------------------------------------
(* The switches of the dispatchers: the overload a node's tags select, *)
(* "ASSERT" for TORCH_INTERNAL_ASSERT(false, ...)                      *)

\* Val::dispatch: an unknown data type breaks out of the inner switch, falls
\* into the outer default and reaches the assert after the switch.
ValDispatchSwitch(n) ==
  CASE n.vtype = "IterDomain" -> "IterDomain"
    [] n.vtype = "TensorDomain" -> "TensorDomain"
    [] n.vtype = "Tensor" -> "Tensor"
    [] n.vtype = "TensorView" -> "TensorView"
    [] n.vtype = "Scalar" ->
         CASE n.dtype = "Float" -> "Float"
           [] n.dtype = "Int" -> "Int"
           [] OTHER -> "ASSERT"
    [] OTHER -> "ASSERT"

ExprDispatchSwitch(n) ==
  CASE n.etype = "Split" -> "Split"
    [] n.etype = "Merge" -> "Merge"
    [] n.etype = "Reorder" -> "Reorder"
    [] n.etype = "UnaryOp" -> "UnaryOp"
    [] n.etype = "BinaryOp" -> "BinaryOp"
    [] n.etype = "ForLoop" -> "ForLoop"
    [] n.etype = "IfThenElse" -> "IfThenElse"
    [] OTHER -> "ASSERT"

\* Mutant: the Statement-level dispatcher hands a Val back to the Statement-level overload.
StatementDispatchBranchSelf(n) ==
  IF isVal(n) THEN "Statement" ELSE IF isExpr(n) THEN "Expr" ELSE "ASSERT"

StatementDispatchBranch(n) ==
  IF isVal(n) THEN "Val" ELSE IF isExpr(n) THEN "Expr" ELSE "ASSERT"

ValConstDispatchSwitch(n) ==
  CASE n.vtype = "IterDomain" -> "IterDomain"
    [] n.vtype = "TensorDomain" -> "TensorDomain"
    [] n.vtype = "Tensor" -> "Tensor"
    [] n.vtype = "TensorView" -> "TensorView"
    [] n.vtype = "Scalar" ->
         CASE n.dtype = "Float" -> "Float"
           [] n.dtype = "Int" -> "Int"
           [] OTHER -> "ASSERT"
    [] OTHER -> "ASSERT"

ExprConstDispatchSwitch(n) ==
  CASE n.etype = "Split" -> "Split"
    [] n.etype = "Merge" -> "Merge"
    [] n.etype = "Reorder" -> "Reorder"
    [] n.etype = "UnaryOp" -> "UnaryOp"
    [] n.etype = "BinaryOp" -> "BinaryOp"
    [] n.etype = "ForLoop" -> "ForLoop"
    [] n.etype = "IfThenElse" -> "IfThenElse"
    [] OTHER -> "ASSERT"

StatementConstDispatchBranch(n) ==
  IF isVal(n) THEN "Val" ELSE IF isExpr(n) THEN "Expr" ELSE "ASSERT"

\* Mutant: a Scalar of an unknown data type falls back to the Int overload.
ValMutatorDispatchSwitchFallback(n) ==
  CASE n.vtype = "IterDomain" -> "IterDomain"
    [] n.vtype = "TensorDomain" -> "TensorDomain"
    [] n.vtype = "Tensor" -> "Tensor"
    [] n.vtype = "TensorView" -> "TensorView"
    [] n.vtype = "Scalar" ->
         CASE n.dtype = "Float" -> "Float"
           [] OTHER -> "Int"
    [] OTHER -> "ASSERT"

ValMutatorDispatchSwitch(n) ==
  CASE n.vtype = "IterDomain" -> "IterDomain"
    [] n.vtype = "TensorDomain" -> "TensorDomain"
    [] n.vtype = "Tensor" -> "Tensor"
    [] n.vtype = "TensorView" -> "TensorView"
    [] n.vtype = "Scalar" ->
         CASE n.dtype = "Float" -> "Float"
           [] n.dtype = "Int" -> "Int"
           [] OTHER -> "ASSERT"
    [] OTHER -> "ASSERT"

\* Expr::mutator_dispatch: the IfThenElse case casts to ForLoop* and so calls
\* mutate(ForLoop*) (line 237).
ExprMutatorDispatchSwitch(n) ==
  CASE n.etype = "Split" -> "Split"
    [] n.etype = "Merge" -> "Merge"
    [] n.etype = "Reorder" -> "Reorder"
    [] n.etype = "UnaryOp" -> "UnaryOp"
    [] n.etype = "BinaryOp" -> "BinaryOp"
    [] n.etype = "ForLoop" -> "ForLoop"
    [] n.etype = "IfThenElse" -> "ForLoop"
    [] OTHER -> "ASSERT"

\* Mutant: the two category branches are exchanged.
StatementMutatorDispatchBranchSwapped(n) ==
  IF isVal(n) THEN "Expr" ELSE IF isExpr(n) THEN "Val" ELSE "ASSERT"

StatementMutatorDispatchBranch(n) ==
  IF isVal(n) THEN "Val" ELSE IF isExpr(n) THEN "Expr" ELSE "ASSERT"

----------------------------------------------------------------------------
(* The dispatchers *)

AtDispatcher(fn, lvl) ==
  /\ Running
  /\ Top.k = "disp" /\ Top.fn = fn /\ Top.ty = lvl /\ Top.pc = "enter"

\* The body shared by the nine dispatchers: tgt is what the function's own
\* switch selects, hfn the handler method it calls, cst whether it passes a
\* read-only node reference, arg the node it passes.  The function either
\* asserts, which ends the call, or calls ptr(handler)->hfn(static_cast<tgt*>(arg)).
Invoke(fn, lvl, tgt, hfn, cst, arg) ==
  /\ AtDispatcher(fn, lvl)
  /\ LET handler == PassByValue(Top)
         d == Len(trace) + 1
     IN /\ trace' = Append(trace, [fn |-> fn, lvl |-> lvl, node |-> Top.node,
                                   obj |-> ptr(handler)])
        /\ IF tgt = "ASSERT"
           THEN /\ status' = "aborted"
                /\ stack' = <<>>
                /\ retv' = Void
                /\ log' = log
           ELSE /\ stack' = Append(SetTop([Top EXCEPT !.pc = "wait"]),
                                   HandFrame(hfn, tgt, arg, ptr(handler), cst, "disp"))
                /\ log' = Append(log, LogEntry(hfn, tgt, arg, ptr(handler), cst, "disp", d))
                /\ UNCHANGED <<status, retv>>
  /\ UNCHANGED <<ir, live, call, dret>>

ValDispatch ==
  /\ AtDispatcher("dispatch", "Val")
  /\ Invoke("dispatch", "Val", ValDispatchSwitch(ir[Top.node]), "handle", FALSE, Top.node)

\* Mutant: the dispatcher hands the handler the first child of its node.
ExprDispatchChild ==
  /\ AtDispatcher("dispatch", "Expr")
  /\ Invoke("dispatch", "Expr", ExprDispatchSwitch(ir[Top.node]), "handle", FALSE,
            IF ir[Top.node].kids # <<>> THEN ir[Top.node].kids[1] ELSE Top.node)

ExprDispatch ==
  /\ AtDispatcher("dispatch", "Expr")
  /\ Invoke("dispatch", "Expr", ExprDispatchSwitch(ir[Top.node]), "handle", FALSE, Top.node)

StatementDispatch ==
  /\ AtDispatcher("dispatch", "Statement")
  /\ Invoke("dispatch", "Statement", StatementDispatchBranch(ir[Top.node]), "handle", FALSE, Top.node)

ValConstDispatch ==
  /\ AtDispatcher("const_dispatch", "Val")
  /\ Invoke("const_dispatch", "Val", ValConstDispatchSwitch(ir[Top.node]), "handle", TRUE, Top.node)

ExprConstDispatch ==
  /\ AtDispatcher("const_dispatch", "Expr")
  /\ Invoke("const_dispatch", "Expr", ExprConstDispatchSwitch(ir[Top.node]), "handle", TRUE, Top.node)

StatementConstDispatch ==
  /\ AtDispatcher("const_dispatch", "Statement")
  /\ Invoke("const_dispatch", "Statement", StatementConstDispatchBranch(ir[Top.node]), "handle", TRUE, Top.node)

ValMutatorDispatch ==
  /\ AtDispatcher("mutator_dispatch", "Val")
  /\ Invoke("mutator_dispatch", "Val", ValMutatorDispatchSwitch(ir[Top.node]), "mutate", FALSE, Top.node)

ExprMutatorDispatch ==
  /\ AtDispatcher("mutator_dispatch", "Expr")
  /\ Invoke("mutator_dispatch", "Expr", ExprMutatorDispatchSwitch(ir[Top.node]), "mutate", FALSE, Top.node)

StatementMutatorDispatch ==
  /\ AtDispatcher("mutator_dispatch", "Statement")
  /\ Invoke("mutator_dispatch", "Statement", StatementMutatorDispatchBranch(ir[Top.node]), "mutate", FALSE, Top.node)

\* dispatch and const_dispatch return nothing once the handler call is back.
DispatchReturn ==
  /\ Running
  /\ Top.k = "disp" /\ Top.fn \in {"dispatch", "const_dispatch"} /\ Top.pc = "wait"
  /\ Pop
  /\ retv' = Void
  /\ UNCHANGED <<ir, live, call, log, trace, dret>>

\* What `return ptr(mutator)->mutate(...)` returns, given what mutate returned.
MutatorDispatchResult(lvl, r) == r

MutatorDispatchReturn ==
  /\ Running
  /\ Top.k = "disp" /\ Top.fn = "mutator_dispatch" /\ Top.pc = "wait"
  /\ Pop
  /\ retv' = MutatorDispatchResult(Top.ty, retv)
  /\ dret' = IF Top.ty # "Statement" /\ Top.node = call.node
             THEN retv'
             ELSE dret
  /\ UNCHANGED <<ir, live, call, log, trace>>

----------------------------------------------------------------------------
(* The generic entry points of the base abstractions *)

AtGeneric(h, fn) ==
  /\ Running
  /\ call.hclass = h
  /\ Top.k = "hand" /\ Top.fn = fn /\ Top.ty \in Levels /\ Top.pc = "enter"

\* handle(X* x) { X::dfn(this, x); }: the entry point of level X calls the
\* dispatcher of level X on the same node, with `this` as the handler.
Forward(dfn) ==
  /\ stack' = Append(SetTop([Top EXCEPT !.pc = "wait"]),
                     DispFrame(dfn, Top.ty, Top.node, "ptr", Top.obj, "hand"))
  /\ UNCHANGED <<ir, live, call, log, trace, status, retv, dret>>

OptOutDispatchHandle ==
  /\ AtGeneric("OptOutDispatch", "handle")
  /\ ~Top.cst
  /\ Forward("dispatch")

OptInDispatchHandle ==
  /\ AtGeneric("OptInDispatch", "handle")
  /\ ~Top.cst
  /\ Forward("dispatch")

\* Mutant: the read-only entry point forwards to the non-const dispatcher.
OptInConstDispatchHandleNonConst ==
  /\ AtGeneric("OptInConstDispatch", "handle")
  /\ Top.cst
  /\ Forward("dispatch")

OptInConstDispatchHandle ==
  /\ AtGeneric("OptInConstDispatch", "handle")
  /\ Top.cst
  /\ Forward("const_dispatch")

OptOutMutatorMutate ==
  /\ AtGeneric("OptOutMutator", "mutate")
  /\ Forward("mutator_dispatch")

\* The Opt-in Mutator's generic mutate entry points are not in dispatch.cpp;
\* "same mechanics" as the Opt-out Mutator's.
OptInMutatorMutate ==
  /\ AtGeneric("OptInMutator", "mutate")
  /\ Forward("mutator_dispatch")

\* The entry point returns once its dispatcher is back: nothing for handle,
\* the dispatcher's result for mutate.
GenericReturn ==
  /\ Running
  /\ Top.k = "hand" /\ Top.ty \in Levels /\ Top.pc = "wait"
  /\ Pop
  /\ retv' = IF Top.fn = "mutate" THEN retv ELSE Void
  /\ UNCHANGED <<ir, live, call, log, trace, dret>>

----------------------------------------------------------------------------
(* The per-kind overloads of the handler (the environment) *)

\* The overload was handed a node that is not of its parameter's kind: the
\* static_cast that produced the pointer has undefined behaviour.
Miscast(f) == f.ty # KindOf(ir[f.node])

UBOutcomes == {"asif", "garbage", "crash"}

\* What mutate(ov*) returns for node n: a replacement when the handler
\* overrides that overload to replace, the node itself otherwise.
Reply(ov, n) ==
  IF call.repl = "all" \/ (call.repl = "own" /\ ov = KindOf(ir[call.node]))
  THEN Repl
  ELSE n

InBody(f) ==
  /\ f.k = "hand" /\ f.ty \in Kinds
  /\ \/ f.pc = "enter" /\ ~Miscast(f)
     \/ f.pc \in {"body", "wait"}

\* A handler frame entered on a miscast node: the overload may go on as if
\* the node were of its kind, read garbage and return a null result, or crash.
ConcreteMiscast ==
  /\ Running
  /\ Top.k = "hand" /\ Top.ty \in Kinds /\ Top.pc = "enter" /\ Miscast(Top)
  /\ \E o \in UBOutcomes :
       \/ /\ o = "asif"
          /\ stack' = SetTop([Top EXCEPT !.pc = "body"])
          /\ UNCHANGED <<status, retv>>
       \/ /\ o = "garbage"
          /\ Top.fn = "mutate"
          /\ Pop
          /\ retv' = Null
       \/ /\ o = "crash"
          /\ stack' = <<>>
          /\ status' = "crashed"
          /\ retv' = Void
  /\ UNCHANGED <<ir, live, call, log, trace, dret>>

\* A traversing overload re-enters a generic entry point on the next child.
ConcreteWalk ==
  /\ Running
  /\ InBody(Top)
  /\ call.walk
  /\ Top.i < Len(ir[Top.node].kids)
  /\ LET c == ir[Top.node].kids[Top.i + 1]
         lvl == IF call.reenter = "Statement" \/ ir[c].cat \notin {"Val", "Expr"}
                THEN "Statement"
                ELSE ir[c].cat
     IN /\ stack' = Append(SetTop([Top EXCEPT !.pc = "wait", !.i = Top.i + 1]),
                           HandFrame(Top.fn, lvl, c, Top.obj, Top.cst, "hand"))
        /\ log' = Append(log, LogEntry(Top.fn, lvl, c, Top.obj, Top.cst, "hand", 0))
  /\ UNCHANGED <<ir, live, call, trace, status, retv, dret>>

\* The overload is done: handle returns nothing, mutate returns its reply,
\* constructing the replacement node when the reply is one.
ConcreteReturn ==
  /\ Running
  /\ InBody(Top)
  /\ ~call.walk \/ Top.i = Len(ir[Top.node].kids)
  /\ Pop
  /\ IF Top.fn = "mutate"
     THEN LET r == Reply(Top.ty, Top.node)
          IN /\ retv' = Ptr(r)
             /\ ir' = IF r = Repl THEN [ir EXCEPT ![Repl] = ReplNode] ELSE ir
             /\ live' = IF r = Repl THEN live \cup {Repl} ELSE live
     ELSE /\ retv' = Void
          /\ UNCHANGED <<ir, live>>
  /\ UNCHANGED <<call, log, trace, dret>>

----------------------------------------------------------------------------
(* Specifications *)

Next ==
  \/ Call
  \/ ValDispatch
  \/ ExprDispatch
  \/ StatementDispatch
  \/ ValConstDispatch
  \/ ExprConstDispatch
  \/ StatementConstDispatch
  \/ ValMutatorDispatch
  \/ ExprMutatorDispatch
  \/ StatementMutatorDispatch
  \/ DispatchReturn
  \/ MutatorDispatchReturn
  \/ OptOutDispatchHandle
  \/ OptInDispatchHandle
  \/ OptInConstDispatchHandle
  \/ OptOutMutatorMutate
  \/ OptInMutatorMutate
  \/ GenericReturn
  \/ ConcreteMiscast
  \/ ConcreteWalk
  \/ ConcreteReturn

\* One step of the running call: everything but the caller starting a new one.
Step ==
  \/ ValDispatch
  \/ ExprDispatch
  \/ StatementDispatch
  \/ ValConstDispatch
  \/ ExprConstDispatch
  \/ StatementConstDispatch
  \/ ValMutatorDispatch
  \/ ExprMutatorDispatch
  \/ StatementMutatorDispatch
  \/ DispatchReturn
  \/ MutatorDispatchReturn
  \/ OptOutDispatchHandle
  \/ OptInDispatchHandle
  \/ OptInConstDispatchHandle
  \/ OptOutMutatorMutate
  \/ OptInMutatorMutate
  \/ GenericReturn
  \/ ConcreteMiscast
  \/ ConcreteWalk
  \/ ConcreteReturn

Spec == Init /\ [][Next]_vars

\* The traversal is synchronous, single-threaded code: a started call keeps running.
FairSpec == Spec /\ WF_vars(Step)

----------------------------------------------------------------------------
(* Vocabulary of the properties *)

Finished == status \in {"done", "aborted", "crashed"}
EntryKind == KindOf(ir[call.node])

\* The handler overloads dispatcher invocation i (an index of trace) called.
CallsOf(i) == {j \in DOMAIN log : log[j].d = i}

\* The tag the dispatcher of invocation t switches on matches none of its cases.
Mismatch(t) ==
  CASE t.lvl = "Statement" -> ir[t.node].cat \notin {"Val", "Expr"}
    [] t.lvl = "Val" ->
         \/ ir[t.node].vtype \notin (ValKinds \cup {"Scalar"})
         \/ ir[t.node].vtype = "Scalar" /\ ir[t.node].dtype \notin ScalarKinds
    [] OTHER -> ir[t.node].etype \notin ExprKinds

Rank(ty) == IF ty = "Statement" THEN 0 ELSE IF ty \in {"Val", "Expr"} THEN 1 ELSE 2

DispDepth == Cardinality({i \in DOMAIN stack : stack[i].k = "disp"})

----------------------------------------------------------------------------
(* Properties *)

\* C1 (Exhaustiveness): every Val- or Expr-level dispatcher invocation, of any
\* family, on a node of a concrete kind calls exactly one handler overload, the
\* one for the node's own kind, with the very node it was given, and does not
\* end in the internal assert.
C1_Exhaustiveness ==
  \A i \in DOMAIN trace :
    (trace[i].lvl \in {"Val", "Expr"} /\ KindOf(ir[trace[i].node]) \in Kinds) =>
      /\ Cardinality(CallsOf(i)) = 1
      /\ \A j \in CallsOf(i) :
           /\ log[j].ov = KindOf(ir[trace[i].node])
           /\ log[j].node = trace[i].node
      /\ ~(status = "aborted" /\ i = Len(trace))

\* C2 (Category commutation): a Statement-level dispatch of a Val or Expr node
\* performs exactly one dispatch at the Val-/Expr-level entry of the node's
\* category, of the same family, on the same node and the same handler object;
\* every per-kind overload invoked on the node is invoked by that nested
\* dispatch, and for Mutate the Statement-level call returns what it returned.
C2_CategoryCommutation ==
  (trace # <<>> /\ trace[1].lvl = "Statement" /\ ir[call.node].cat \in {"Val", "Expr"}) =>
    /\ Len(trace) >= 2 =>
         trace[2] = [fn |-> trace[1].fn, lvl |-> ir[call.node].cat,
                     node |-> call.node, obj |-> trace[1].obj]
    /\ \A j \in DOMAIN log :
         (log[j].node = call.node /\ log[j].ov \in Kinds) => log[j].d = 2
    /\ status = "done" =>
         /\ {i \in DOMAIN trace : trace[i].node = call.node} = {1, 2}
         /\ call.fam = "Mutate" => retv = dret

C2_Witness ==
  /\ status = "done"
  /\ call.via = "dispatcher" /\ call.level = "Statement" /\ call.fam = "Mutate"
  /\ ir[call.node].cat = "Val"
  /\ retv = Ptr(Repl)
  /\ dret = Ptr(Repl)

\* C3 (Unreachable tag is fatal): a dispatcher invocation whose node matches no
\* case of its switch ends the call in the internal assert; it calls no handler
\* overload, returns no value and nothing runs after it.
C3_UnreachableTagFatal ==
  \A i \in DOMAIN trace :
    Mismatch(trace[i]) =>
      /\ status = "aborted"
      /\ i = Len(trace)
      /\ CallsOf(i) = {}
      /\ stack = <<>>
      /\ retv = Void

C3_Witness ==
  /\ status = "aborted"
  /\ call.fam = "Mutate"
  /\ trace[Len(trace)].lvl = "Val"
  /\ ir[trace[Len(trace)].node].vtype = "Scalar"

\* C4 (Mutate result propagation): a finished mutator dispatch of a node of
\* concrete kind K, with a handler whose mutate overload for K returns a
\* replacement, has returned exactly that replacement.
C4_MutateResultPropagation ==
  (Finished /\ call.fam = "Mutate" /\ ~call.walk /\ EntryKind \in Kinds
     /\ call.repl \in {"own", "all"}) =>
    /\ status = "done"
    /\ retv = Ptr(Repl)

\* C5 (Const non-mutation): in a Const-Visit call every function on the call
\* stack is const_dispatch or a read-only handle overload, and every handler
\* call made is a handle call with a read-only node reference.
C5_ConstNonMutation ==
  call.fam = "Const" =>
    /\ \A i \in DOMAIN stack :
         /\ stack[i].cst
         /\ stack[i].fn \in {"const_dispatch", "handle"}
    /\ \A j \in DOMAIN log : log[j].cst /\ log[j].fn = "handle"
    /\ \A i \in DOMAIN trace : trace[i].fn = "const_dispatch"

C5_Witness ==
  /\ status = "done"
  /\ call.fam = "Const" /\ call.level = "Statement" /\ call.via = "handler"
  /\ \E j \in DOMAIN log : log[j].ov \in Kinds /\ log[j].by = "disp" /\ log[j].cst

\* C6 (Handler-form uniformity): whichever form the handler was supplied in,
\* the per-kind overloads a completed dispatch invoked ran on the handler
\* object the caller supplied.
C6_HandlerFormUniformity ==
  (status = "done" /\ call.via = "dispatcher") =>
    \A j \in DOMAIN log : log[j].ov \in Kinds => log[j].obj = "caller"

\* C7 (Mutate totality): an Opt-out Mutator without overrides, run on a node
\* of any concrete kind, returns a non-null Statement and does not abort.
C7_MutateTotality ==
  (Finished /\ call.hclass = "OptOutMutator" /\ ~call.walk /\ call.repl = "none"
     /\ EntryKind \in Kinds) =>
    /\ status = "done"
    /\ retv.t = "node"

\* C8 (The dispatcher has no effect of its own): a step of a dispatcher leaves
\* the tags, the children and the set of nodes as they are, keeps the caller's
\* frames, and calls at most one handler overload, on its own node.
C8_DispatcherNoEffect ==
  [][(Running /\ Top.k = "disp") =>
       /\ ir' = ir
       /\ live' = live
       /\ call' = call
       /\ Len(stack') <= Len(stack) + 1
       /\ Len(log') <= Len(log) + 1
       /\ \A j \in DOMAIN log' : j > Len(log) => log'[j].node = Top.node
       /\ Len(stack') > Len(stack) =>
            /\ stack'[Len(stack')].k = "hand"
            /\ stack'[Len(stack')].node = Top.node
            /\ SubSeq(stack', 1, Len(stack) - 1) = SubSeq(stack, 1, Len(stack) - 1)]_vars

C8_Witness ==
  /\ status = "done"
  /\ call.via = "dispatcher" /\ ~call.walk
  /\ ir[call.node].kids # <<>>
  /\ Len(log) = 1
  /\ log[1].node = call.node

\* C9 (Termination): the number of dispatcher invocations nested on the stack
\* never exceeds twice the depth of the tree under the entry node, and a started
\* traversal eventually completes or aborts on the internal assert.
C9_Termination ==
  /\ [](DispDepth <= 2 * TreeDepth(ir, call.node))
  /\ (status = "running") ~> (status \in {"done", "aborted"})

\* C10 (No self re-entry): a dispatcher never calls the Statement-level
\* overload; it calls, on its own node, an overload exactly one level more
\* specific than its own; so no node has more than three handler frames
\* pushed by dispatchers on the stack.
C10_NoSelfReentry ==
  /\ \A j \in DOMAIN log :
       log[j].by = "disp" =>
         /\ log[j].ov # "Statement"
         /\ Rank(log[j].ov) = Rank(trace[log[j].d].lvl) + 1
         /\ log[j].node = trace[log[j].d].node
  /\ \A n \in NodeIds :
       Cardinality({i \in DOMAIN stack :
                      stack[i].k = "hand" /\ stack[i].by = "disp" /\ stack[i].node = n}) <= 3

C10_Witness ==
  /\ Running
  /\ call.level = "Statement" /\ call.via = "handler"
  /\ Top.k = "hand" /\ Top.ty \in Kinds /\ Top.node = call.node
  /\ Len(stack) = 5

====
